---- MODULE Spec2Model ----
(***************************************************************************)
(* Dynamic keyterm refresh controller of the streaming demo                *)
(* (src/demo/main.py, src/demo/keyterms.py, src/demo/config.py).           *)
(*                                                                         *)
(* One boosted streaming session: the SDK's event thread runs the handlers *)
(* on_begin / on_turn / on_terminated / on_error one at a time, and every  *)
(* background keyterm task (threading.Thread, daemon) advances statement   *)
(* by statement, interleaved with the handlers and with the other tasks.   *)
(* Comparison mode runs an unboosted session and then a boosted one.       *)
(*                                                                         *)
(* Python values are modelled as follows.                                  *)
(*   - transcript text: a sequence of one-character strings;               *)
(*   - a parsed JSON element: a record [t |-> type, v |-> value], a JSON   *)
(*     string being [t |-> "str", v |-> <TLA+ string>];                    *)
(*   - a keyterm list: a sequence of such elements.                        *)
(***************************************************************************)
EXTENDS Integers, Sequences, FiniteSets, TLC

\* ------------------------------------------------------------------------
\* Program constants
\* ------------------------------------------------------------------------
KEYTERM_REFRESH_THRESHOLD == 50

MAX_KEYTERMS == 100

MAX_TERM_LEN == 50

\* ------------------------------------------------------------------------
\* Bounds of the model
\* ------------------------------------------------------------------------
\* Spec: turn events delivered to the session, refresh threads it starts
MaxTurns == 2

MaxRefresh == 1

\* SpecRace: the same with two refresh threads
RaceTurns == 3

RaceRefresh == 2

\* SpecBurst: the same with three refresh threads and one kind of reply
BurstTurns == 3

BurstRefresh == 3

\* SpecCompare: turn events per session, refresh threads of the boosted one
CmpTurns == 2

CmpRefresh == 1

\* ------------------------------------------------------------------------
\* Text: str.strip() / str.split() on sequences of characters
\* ------------------------------------------------------------------------
IsSpace(c) == c \in {" ", "\t", "\n"}

\* not text.strip()
IsBlank(text) == \A i \in 1..Len(text) : IsSpace(text[i])

\* len(text.split()): one token starts wherever a non-space character
\* follows the start of the text or a space
SplitLen(text) ==
  Cardinality({i \in 1..Len(text) :
                 /\ ~IsSpace(text[i])
                 /\ (i = 1 \/ IsSpace(text[i - 1]))})

\* n one-letter words separated by single spaces
Words(n) == [i \in 1..(2 * n - 1) |-> IF i % 2 = 1 THEN "a" ELSE " "]

BlankText == <<" ", "\t">>
OneWord == <<"a">>
\* 49 words with leading, doubled and trailing whitespace
Odd49 == <<"\n">> \o Words(24) \o <<" ", " ">> \o Words(25) \o <<"\t", " ">>
Fifty == Words(KEYTERM_REFRESH_THRESHOLD)

\* the transcripts a turn event may carry
TurnTexts == {BlankText, OneWord, Odd49, Fifty}

\* turn events <<transcript, end_of_turn, turn_is_formatted>>
AllEvents == TurnTexts \X BOOLEAN \X BOOLEAN

\* every transcript as a final unformatted turn, and one partial, one formatted
\* and one blank formatted turn
FewEvents ==
  (TurnTexts \X {TRUE} \X {FALSE})
    \cup {<<Fifty, FALSE, FALSE>>, <<Fifty, TRUE, TRUE>>, <<BlankText, TRUE, TRUE>>}

\* ------------------------------------------------------------------------
\* Keyterms
\* ------------------------------------------------------------------------
Str(s) == [t |-> "str", v |-> s]
Num(s) == [t |-> "num", v |-> s]

get_fallback_keyterms ==
  << Str("appointment"), Str("reschedule"), Str("follow-up"),
     Str("consultation"), Str("primary care"), Str("specialist"),
     Str("referral"), Str("prescription"), Str("Medicare"),
     Str("Medicaid"), Str("insurance"), Str("copay"),
     Str("deductible"), Str("cardiology"), Str("orthopedics"),
     Str("nephrology"), Str("oncology"), Str("physical therapy"),
     Str("occupational therapy"), Str("dialysis"), Str("blood pressure"),
     Str("cholesterol"), Str("diabetes"), Str("Metformin"),
     Str("MRI"), Str("CT scan"), Str("X-ray"),
     Str("ultrasound"), Str("lab work"), Str("Section 8"),
     Str("housing voucher"), Str("HUD"), Str("subsidized housing"),
     Str("affordable housing"), Str("income verification"), Str("lease agreement"),
     Str("rental assistance"), Str("LIHEAP"), Str("weatherization"),
     Str("housing authority"), Str("case worker"), Str("application status"),
     Str("maintenance request"), Str("property manager"), Str("landlord"),
     Str("available"), Str("morning"), Str("afternoon"),
     Str("Tuesday"), Str("Thursday"), Str("next week"),
     Str("tomorrow"), Str("confirm"), Str("cancel"),
     Str("waiting list"), Str("Social Security"), Str("disability"),
     Str("SNAP"), Str("food stamps"), Str("home health aide"),
     Str("visiting nurse"), Str("transportation") >>

\* isinstance(term, str) and len(term) <= 50 and len(term) > 0
\* mutant: the type of the element is not looked at
IsValidTerm_untyped(term) ==
  /\ Len(term.v) <= MAX_TERM_LEN
  /\ Len(term.v) > 0

\* isinstance(term, str) and len(term) <= 50 and len(term) > 0
IsValidTerm(term) ==
  /\ term.t = "str"
  /\ Len(term.v) <= MAX_TERM_LEN
  /\ Len(term.v) > 0

\* seq[:n]
Take(seq, n) == SubSeq(seq, 1, IF Len(seq) < n THEN Len(seq) ELSE n)

\* mutant: the list is filtered but not cut to MAX_KEYTERMS
ValidKeyterms_untruncated(keyterms) == SelectSeq(keyterms, IsValidTerm)

\* [term for term in keyterms if ...][:MAX_KEYTERMS]
ValidKeyterms(keyterms) == Take(SelectSeq(keyterms, IsValidTerm), MAX_KEYTERMS)

\* ------------------------------------------------------------------------
\* History store (previous_conversations.json)
\* ------------------------------------------------------------------------
\* what the file may hold: no file, text that is not JSON, or a JSON list of
\* conversation records (with or without their "text" field)
StoreAbsent == [file |-> "absent", convs |-> << >>]
StoreUnparseable == [file |-> "unparseable", convs |-> << >>]
StoreEmpty == [file |-> "json", convs |-> << >>]
StoreRecords == [file |-> "json", convs |-> <<[has_text |-> TRUE], [has_text |-> TRUE]>>]
StoreNoText == [file |-> "json", convs |-> <<[has_text |-> FALSE]>>]

Stores == {StoreAbsent, StoreUnparseable, StoreEmpty, StoreRecords, StoreNoText}

\* mutant: a store that cannot be read counts as two conversations
load_previous_conversations_default(store) ==
  IF store.file = "json" THEN store.convs ELSE StoreRecords.convs

\* FileNotFoundError and json.JSONDecodeError both give []
load_previous_conversations(store) ==
  IF store.file = "json" THEN store.convs ELSE << >>

\* conv["text"] for conv in convs raises KeyError on a record without "text"
HistoryTextRaises(convs) == \E i \in 1..Len(convs) : ~convs[i].has_text

\* previous_conversations[-3:]
LastThree(convs) ==
  SubSeq(convs, IF Len(convs) > 3 THEN Len(convs) - 2 ELSE 1, Len(convs))

\* ------------------------------------------------------------------------
\* Generation service: what one HTTP exchange with the LLM gateway yields
\* ------------------------------------------------------------------------
\* a piece of JSON text: k is what json.loads makes of it, items what iterating
\* the loaded value yields
\*   "empty" / "invalid": JSONDecodeError;  "array": its elements;  "object": its
\*   keys;  "string": its characters, each a str;  "number": an int (not iterable)
Json(k, items) == [k |-> k, items |-> items]

\* response text: an optional ``` fence around a piece of JSON text
\*   "none": no fence;  "block": ```json\n ... \n```;  "noline": ``` with no
\*   newline after it
Text(fence, json) == [fence |-> fence, json |-> json]

EmptyResponse == Text("none", Json("empty", << >>))

\* http: "ok" (2xx with choices[0].message.content), "request_error" (network
\* error, non-2xx status, body that is not JSON), "no_content" (a JSON body
\* without choices[0].message.content)
Reply(http, text) == [http |-> http, text |-> text]

\* try: ... return result["choices"][0]["message"]["content"]
\* except requests.RequestException: return ""
call_llm_gateway(reply) ==
  CASE reply.http = "ok" -> [raised |-> FALSE, text |-> reply.text]
    [] reply.http = "request_error" -> [raised |-> FALSE, text |-> EmptyResponse]
    [] OTHER -> [raised |-> TRUE, text |-> EmptyResponse]

\* if response.startswith("```"):
\*     response = response.split("\n", 1)[1]; response = response.rsplit("```", 1)[0]
StripFence(text) ==
  CASE text.fence = "none" -> [raised |-> FALSE, json |-> text.json]
    [] text.fence = "block" -> [raised |-> FALSE, json |-> text.json]
    [] OTHER -> [raised |-> TRUE, json |-> text.json]

\* keyterms = json.loads(response); [term for term in keyterms if ...][:MAX_KEYTERMS]
\*   st = "ok": terms; "decode_error": json.JSONDecodeError; "raised": any other
\*   exception (IndexError of the fence split, TypeError of iterating an int)
ExtractKeyterms(text) ==
  LET s == StripFence(text) IN
  CASE s.raised -> [st |-> "raised", terms |-> << >>]
    [] s.json.k \in {"empty", "invalid"} -> [st |-> "decode_error", terms |-> << >>]
    [] s.json.k \in {"array", "object", "string"} ->
         [st |-> "ok", terms |-> ValidKeyterms(s.json.items)]
    [] OTHER -> [st |-> "raised", terms |-> << >>]

\* generate_initial_keyterms(previous_conversations) given the gateway's reply:
\* the list returned, or raised
generate_initial_keyterms(convs, reply) ==
  LET r == call_llm_gateway(reply)
      e == ExtractKeyterms(r.text) IN
  CASE HistoryTextRaises(convs) \/ r.raised \/ e.st = "raised" ->
         [raised |-> TRUE, terms |-> << >>]
    [] e.st = "decode_error" -> [raised |-> FALSE, terms |-> get_fallback_keyterms]
    [] OTHER -> [raised |-> FALSE, terms |-> e.terms]

\* refresh_keyterms(current_keyterms, current_transcript, previous_conversations)
\* given the gateway's reply: the list returned, or raised
refresh_keyterms(current_keyterms, convs, reply) ==
  LET r == call_llm_gateway(reply)
      e == ExtractKeyterms(r.text) IN
  CASE HistoryTextRaises(LastThree(convs)) \/ r.raised \/ e.st = "raised" ->
         [raised |-> TRUE, terms |-> << >>]
    [] e.st = "decode_error" -> [raised |-> FALSE, terms |-> current_keyterms]
    [] OTHER -> [raised |-> FALSE, terms |-> e.terms]

\* requests.post calls one extractor call makes: the prompt is built from
\* conv["text"] first, and a KeyError there ends the call before the request
Requests(convs) == IF HistoryTextRaises(convs) THEN 0 ELSE 1

\* how generate_initial_keyterms ended for a reply
InitialOutcome(reply) ==
  LET r == call_llm_gateway(reply) IN
  CASE r.raised -> "raised"
    [] ExtractKeyterms(r.text).st = "raised" -> "raised"
    [] ExtractKeyterms(r.text).st = "decode_error" -> "fallback"
    [] OTHER -> "parsed"

\* ---- the replies the generation service gives in the model ----
ListA == <<Str("Siobhan"), Str("Kowalczyk"), Str("Omeprazole")>>

LongTerm == "Natchitoches Regional Medical Center Outpatient Wing"

\* 120 valid strings after a number, an empty string and a 52-character string
BigItems ==
  <<Num("7"), Str(""), Str(LongTerm)>> \o [i \in 1..120 |-> Str("term" \o ToString(i))]

ReplyRequestError == Reply("request_error", EmptyResponse)
ReplyNoContent == Reply("no_content", EmptyResponse)
ReplyInvalid == Reply("ok", Text("none", Json("invalid", << >>)))
ReplyListA == Reply("ok", Text("none", Json("array", ListA)))
ReplyBig == Reply("ok", Text("block", Json("array", BigItems)))
ReplyEmptyArray == Reply("ok", Text("none", Json("array", << >>)))
\* '[42]': an array with no valid element
ReplyNoString == Reply("ok", Text("none", Json("array", <<Num("42")>>)))

ReplyNumber == Reply("ok", Text("none", Json("number", << >>)))
ReplyObject == Reply("ok", Text("none", Json("object", <<Str("Niamh"), Str("Brzezinski")>>)))
ReplyString == Reply("ok", Text("none", Json("string", <<Str("H"), Str("U"), Str("D")>>)))
ReplyNoLine == Reply("ok", Text("noline", Json("array", ListA)))

\* replies drawn by the background tasks of a session
Replies == {ReplyRequestError, ReplyBig, ReplyNumber}

RaceReplies == {ReplyRequestError, ReplyListA, ReplyObject}

BurstReplies == {ReplyListA}

\* ------------------------------------------------------------------------
\* State
\* ------------------------------------------------------------------------
VARIABLES
  phase,                           \* the session: "connected", "live",
                                   \* "terminated", "exited"
  current_transcript,              \* ConversationState.current_transcript
  word_count,                      \* ConversationState.word_count
  last_keyterm_update_word_count,  \* ConversationState.last_keyterm_update_word_count
  current_keyterms,                \* ConversationState.current_keyterms
  initial_keyterms_generated,      \* ConversationState.initial_keyterms_generated
  final_formatted_turns,           \* ConversationState.final_formatted_turns
  session_keyterms,                \* the client: keyterms_prompt of the last set_params
  set_params_calls,                \* the client: set_params calls that went through
  init_task,                       \* the generate_initial_keyterms_async thread
  refresh_tasks,                   \* the refresh_keyterms_async threads, in start order
  nturns,                          \* turn events delivered so far
  fu_turns,                        \* texts of the end_of_turn, unformatted turn events
  llm_requests,                    \* requests.post calls made to the LLM gateway
  probe,                           \* one direct call of a keyterms.py function:
                                   \* its arguments and what it returned
  session,                         \* the session main() is running: "microphone",
                                   \* or "no_boost" then "boost" in comparison mode
  delivered,                       \* comparison mode: the turn events the SDK
                                   \* delivered, each with its session
  session1_turns,                  \* main(): session1_turns
  session2_turns                   \* main(): session2_turns

vars == <<phase, current_transcript, word_count,
          last_keyterm_update_word_count, current_keyterms,
          initial_keyterms_generated, final_formatted_turns, session_keyterms,
          set_params_calls, init_task, refresh_tasks, nturns, fu_turns,
          llm_requests, probe, session, delivered, session1_turns,
          session2_turns>>

compare_vars == <<session, delivered, session1_turns, session2_turns>>

conv_vars == <<current_transcript, word_count, last_keyterm_update_word_count,
               current_keyterms, initial_keyterms_generated, final_formatted_turns>>

client_vars == <<session_keyterms, set_params_calls>>

session_vars == <<phase, conv_vars, client_vars, init_task, refresh_tasks,
                  nturns, fu_turns, llm_requests>>

\* a thread and its locals; gen: how generate_initial_keyterms ended ("parsed",
\* or "fallback" when it returned get_fallback_keyterms()), "no_history" when
\* the thread returned before calling it; a finished thread keeps only what it
\* published
InitTask(pc, gen, llm_keyterms, published) ==
  [pc |-> pc, gen |-> gen, llm_keyterms |-> llm_keyterms, published |-> published]

\* at: the word count that triggered the thread; gen: how refresh_keyterms
\* ended ("parsed", or "kept" when it returned current_keyterms); a thread that
\* has ended keeps only what it published
RefreshTask(pc, at, gen, new_keyterms, wc, published) ==
  [pc |-> pc, at |-> at, gen |-> gen, new_keyterms |-> new_keyterms, wc |-> wc,
   published |-> published]

\* no direct call is being looked at
NoProbe ==
  [op |-> "none", convs |-> << >>, reply |-> ReplyRequestError, current |-> << >>,
   raised |-> FALSE, text |-> EmptyResponse, terms |-> << >>]

\* ConversationState.__init__ and main() up to client.connect (microphone mode)
Init ==
  /\ phase = "connected"
  /\ current_transcript = << >>
  /\ word_count = 0
  /\ last_keyterm_update_word_count = 0
  /\ current_keyterms = << >>
  /\ initial_keyterms_generated = FALSE
  /\ final_formatted_turns = << >>
  /\ session_keyterms = << >>
  /\ set_params_calls = 0
  /\ init_task = InitTask("idle", "none", << >>, FALSE)
  /\ refresh_tasks = << >>
  /\ nturns = 0
  /\ fu_turns = << >>
  /\ llm_requests = 0
  /\ probe = NoProbe
  /\ session = "microphone"
  /\ delivered = << >>
  /\ session1_turns = << >>
  /\ session2_turns = << >>

\* daemon threads run until the process exits
ThreadsRun == phase # "exited"

\* client.set_params(StreamingSessionParameters(keyterms_prompt=keyterms))
set_params(keyterms) ==
  /\ session_keyterms' = keyterms
  /\ set_params_calls' = set_params_calls + 1

\* ------------------------------------------------------------------------
\* Event handlers (the SDK's event thread)
\* ------------------------------------------------------------------------
\* mutant: the fallback list is kept in the state but not sent to the session
on_begin_unpushed ==
  /\ phase = "connected"
  /\ phase' = "live"
  /\ current_keyterms' = get_fallback_keyterms
  /\ initial_keyterms_generated' = TRUE
  /\ init_task' = InitTask("call", "none", << >>, FALSE)
  /\ UNCHANGED <<current_transcript, word_count,
                 last_keyterm_update_word_count, final_formatted_turns,
                 client_vars, refresh_tasks, nturns, fu_turns, llm_requests, probe>>

\* on_begin: the fallback list is stored and sent, then the thread is started
on_begin ==
  /\ phase = "connected"
  /\ phase' = "live"
  /\ current_keyterms' = get_fallback_keyterms
  /\ set_params(get_fallback_keyterms)
  /\ initial_keyterms_generated' = TRUE
  /\ init_task' = InitTask("call", "none", << >>, FALSE)
  /\ UNCHANGED <<current_transcript, word_count,
                 last_keyterm_update_word_count, final_formatted_turns,
                 refresh_tasks, nturns, fu_turns, llm_requests, probe>>

\* mutant: the text is appended without the separating space
add_transcript_unspaced(transcript, text) ==
  LET t == transcript \o text IN
  [current_transcript |-> t, word_count |-> SplitLen(t)]

\* ConversationState.add_transcript: the new transcript and word count
add_transcript(transcript, text) ==
  LET t == transcript \o <<" ">> \o text IN
  [current_transcript |-> t, word_count |-> SplitLen(t)]

\* mutant: the threshold itself does not trigger
should_refresh_strict(wc, last) == wc - last > KEYTERM_REFRESH_THRESHOLD

\* ConversationState.should_refresh_keyterms
should_refresh_keyterms(wc, last) == wc - last >= KEYTERM_REFRESH_THRESHOLD

\* mutant: the marker is set one word ahead of the count
mark_keyterms_updated_ahead(wc) == wc + 1

\* ConversationState.mark_keyterms_updated: the value stored for a word count read
mark_keyterms_updated(wc) == wc

\* mutant: every final turn counts, formatted or not
is_final(end_of_turn, turn_is_formatted) == end_of_turn

\* if event.end_of_turn and not event.turn_is_formatted
is_final_unformatted(end_of_turn, turn_is_formatted) ==
  end_of_turn /\ ~turn_is_formatted

\* mutant: a turn is handled only once every thread started so far has ended
on_turn_waiting(text, end_of_turn, turn_is_formatted, max_turns, max_refresh) ==
  /\ phase = "live"
  /\ init_task.pc = "done"
  /\ \A i \in 1..Len(refresh_tasks) : refresh_tasks[i].pc = "done"
  /\ nturns < max_turns
  /\ nturns' = nturns + 1
  /\ fu_turns' = IF end_of_turn /\ ~turn_is_formatted
                 THEN Append(fu_turns, text) ELSE fu_turns
  /\ IF IsBlank(text)
     THEN UNCHANGED <<conv_vars, refresh_tasks>>
     ELSE
       /\ final_formatted_turns' =
            IF end_of_turn /\ turn_is_formatted
            THEN Append(final_formatted_turns, text) ELSE final_formatted_turns
       /\ IF is_final_unformatted(end_of_turn, turn_is_formatted)
          THEN LET a == add_transcript(current_transcript, text) IN
            /\ current_transcript' = a.current_transcript
            /\ word_count' = a.word_count
            /\ IF should_refresh_keyterms(a.word_count, last_keyterm_update_word_count)
               THEN /\ Len(refresh_tasks) < max_refresh
                    /\ last_keyterm_update_word_count' = mark_keyterms_updated(a.word_count)
                    /\ refresh_tasks' = Append(refresh_tasks,
                         RefreshTask("call", a.word_count, "none", << >>, 0, FALSE))
               ELSE UNCHANGED <<last_keyterm_update_word_count, refresh_tasks>>
          ELSE UNCHANGED <<current_transcript, word_count,
                           last_keyterm_update_word_count, refresh_tasks>>
       /\ UNCHANGED <<current_keyterms, initial_keyterms_generated>>
  /\ UNCHANGED <<phase, client_vars, init_task, llm_requests, probe>>

\* max_turns, max_refresh: the bounds on the events delivered and on the
\* threads started
on_turn(text, end_of_turn, turn_is_formatted, max_turns, max_refresh) ==
  /\ phase = "live"
  /\ nturns < max_turns
  /\ nturns' = nturns + 1
  /\ fu_turns' = IF end_of_turn /\ ~turn_is_formatted
                 THEN Append(fu_turns, text) ELSE fu_turns
  /\ IF IsBlank(text)
     THEN UNCHANGED <<conv_vars, refresh_tasks>>
     ELSE
       /\ final_formatted_turns' =
            IF end_of_turn /\ turn_is_formatted
            THEN Append(final_formatted_turns, text) ELSE final_formatted_turns
       /\ IF is_final_unformatted(end_of_turn, turn_is_formatted)
          THEN LET a == add_transcript(current_transcript, text) IN
            /\ current_transcript' = a.current_transcript
            /\ word_count' = a.word_count
            /\ IF should_refresh_keyterms(a.word_count, last_keyterm_update_word_count)
               THEN /\ Len(refresh_tasks) < max_refresh
                    /\ last_keyterm_update_word_count' = mark_keyterms_updated(a.word_count)
                    /\ refresh_tasks' = Append(refresh_tasks,
                         RefreshTask("call", a.word_count, "none", << >>, 0, FALSE))
               ELSE UNCHANGED <<last_keyterm_update_word_count, refresh_tasks>>
          ELSE UNCHANGED <<current_transcript, word_count,
                           last_keyterm_update_word_count, refresh_tasks>>
       /\ UNCHANGED <<current_keyterms, initial_keyterms_generated>>
  /\ UNCHANGED <<phase, client_vars, init_task, llm_requests, probe>>

OnTurn(events, max_turns, max_refresh) ==
  \E ev \in events : on_turn(ev[1], ev[2], ev[3], max_turns, max_refresh)

\* on_terminated: pass
on_terminated ==
  /\ phase = "live"
  /\ phase' = "terminated"
  /\ UNCHANGED <<conv_vars, client_vars, init_task, refresh_tasks, nturns, fu_turns,
                 llm_requests, probe>>

\* on_error: prints the error
on_error ==
  /\ phase \in {"live", "terminated"}
  /\ UNCHANGED vars

\* main()'s finally and return: client.disconnect(terminate=True) returns, the
\* interpreter exits and the daemon threads end with it
disconnect ==
  /\ phase \in {"connected", "live", "terminated"}
  /\ phase' = "exited"
  /\ init_task' = IF init_task.pc \in {"idle", "done"} THEN init_task
                  ELSE InitTask("killed", "none", << >>, FALSE)
  /\ refresh_tasks' = [i \in 1..Len(refresh_tasks) |->
                         IF refresh_tasks[i].pc = "done" THEN refresh_tasks[i]
                         ELSE RefreshTask("killed", refresh_tasks[i].at,
                                          IF refresh_tasks[i].published
                                          THEN refresh_tasks[i].gen ELSE "none",
                                          IF refresh_tasks[i].published
                                          THEN refresh_tasks[i].new_keyterms
                                          ELSE << >>,
                                          0, refresh_tasks[i].published)]
  /\ UNCHANGED <<conv_vars, client_vars, nturns, fu_turns, llm_requests, probe>>

\* ------------------------------------------------------------------------
\* generate_initial_keyterms_async (one background thread, started by on_begin)
\* ------------------------------------------------------------------------
\* load_previous_conversations(), the early return on no history, and
\* generate_initial_keyterms(previous_conversations) with the check of its
\* result; the store is read when the call is made
InitialCallWith(store, replies) ==
  /\ ThreadsRun
  /\ init_task.pc = "call"
  /\ LET convs == load_previous_conversations(store) IN
     IF Len(convs) = 0
     THEN /\ init_task' = InitTask("done", "no_history", << >>, FALSE)
          /\ UNCHANGED llm_requests
     ELSE \E reply \in replies :
            LET g == generate_initial_keyterms(convs, reply) IN
            /\ init_task' = IF ~g.raised /\ Len(g.terms) > 0
                            THEN InitTask("set_params", InitialOutcome(reply),
                                          g.terms, FALSE)
                            ELSE InitTask("done", "none", << >>, FALSE)
            /\ llm_requests' = llm_requests + Requests(convs)
  /\ UNCHANGED <<phase, conv_vars, client_vars, refresh_tasks, nturns, fu_turns,
                 probe>>

InitialCall(stores, replies) ==
  \E store \in stores : InitialCallWith(store, replies)

\* client.set_params(StreamingSessionParameters(keyterms_prompt=llm_keyterms));
\* an exception of the call ends the task in its except clause
InitialSetParams ==
  /\ ThreadsRun
  /\ init_task.pc = "set_params"
  /\ \E accepted \in BOOLEAN :
       IF accepted
       THEN /\ set_params(init_task.llm_keyterms)
            /\ init_task' = [init_task EXCEPT !.pc = "assign"]
       ELSE /\ UNCHANGED client_vars
            /\ init_task' = InitTask("done", "none", << >>, FALSE)
  /\ UNCHANGED <<phase, conv_vars, refresh_tasks, nturns, fu_turns, llm_requests,
                 probe>>

\* conversation_state.current_keyterms = llm_keyterms
InitialAssign ==
  /\ ThreadsRun
  /\ init_task.pc = "assign"
  /\ current_keyterms' = init_task.llm_keyterms
  /\ init_task' = InitTask("done", init_task.gen, init_task.llm_keyterms, TRUE)
  /\ UNCHANGED <<phase, current_transcript, word_count,
                 last_keyterm_update_word_count, initial_keyterms_generated,
                 final_formatted_turns, client_vars, refresh_tasks, nturns, fu_turns,
                 llm_requests, probe>>

\* ------------------------------------------------------------------------
\* refresh_keyterms_async (one background thread per trigger)
\* ------------------------------------------------------------------------
SetTask(i, task) == [refresh_tasks EXCEPT ![i] = task]

\* the thread that ended in its except clause
Failed(task) == RefreshTask("done", task.at, "none", << >>, 0, FALSE)

\* how refresh_keyterms ended for a reply
GenOutcome(reply) ==
  LET r == call_llm_gateway(reply) IN
  CASE r.raised -> "raised"
    [] ExtractKeyterms(r.text).st = "raised" -> "raised"
    [] ExtractKeyterms(r.text).st = "decode_error" -> "kept"
    [] OTHER -> "parsed"

\* load_previous_conversations() and refresh_keyterms(current_keyterms,
\* current_transcript, previous_conversations): the store and the arguments
\* are read when the call is made
RefreshCall(i, stores, replies) ==
  /\ ThreadsRun
  /\ refresh_tasks[i].pc = "call"
  /\ \E store \in stores, reply \in replies :
       LET t == refresh_tasks[i]
           convs == load_previous_conversations(store)
           r == refresh_keyterms(current_keyterms, convs, reply) IN
       /\ refresh_tasks' =
            IF r.raised
            THEN SetTask(i, Failed(t))
            ELSE SetTask(i, RefreshTask("set_params", t.at, GenOutcome(reply),
                                        r.terms, 0, FALSE))
       /\ llm_requests' = llm_requests + Requests(LastThree(convs))
  /\ UNCHANGED <<phase, conv_vars, client_vars, init_task, nturns, fu_turns, probe>>

\* client.set_params(StreamingSessionParameters(keyterms_prompt=new_keyterms));
\* an exception of the call ends the task in its except clause
RefreshSetParams(i) ==
  /\ ThreadsRun
  /\ refresh_tasks[i].pc = "set_params"
  /\ \E accepted \in BOOLEAN :
       IF accepted
       THEN /\ set_params(refresh_tasks[i].new_keyterms)
            /\ refresh_tasks' = SetTask(i, [refresh_tasks[i] EXCEPT !.pc = "assign"])
       ELSE /\ UNCHANGED client_vars
            /\ refresh_tasks' = SetTask(i, Failed(refresh_tasks[i]))
  /\ UNCHANGED <<phase, conv_vars, init_task, nturns, fu_turns, llm_requests, probe>>

\* conversation_state.current_keyterms = new_keyterms, and the read of
\* self.word_count that begins conversation_state.mark_keyterms_updated().
\* The two are one step: on_turn neither reads nor writes current_keyterms and
\* no other thread touches word_count, so every interleaving between them is
\* equivalent to one before or after both.
RefreshAssign(i) ==
  /\ ThreadsRun
  /\ refresh_tasks[i].pc = "assign"
  /\ current_keyterms' = refresh_tasks[i].new_keyterms
  /\ refresh_tasks' = SetTask(i, [refresh_tasks[i] EXCEPT !.pc = "mark_write",
                                                          !.wc = word_count,
                                                          !.published = TRUE])
  /\ UNCHANGED <<phase, current_transcript, word_count,
                 last_keyterm_update_word_count, initial_keyterms_generated,
                 final_formatted_turns, client_vars, init_task, nturns, fu_turns,
                 llm_requests, probe>>

\* conversation_state.mark_keyterms_updated(), the store to
\* self.last_keyterm_update_word_count
RefreshMarkWrite(i) ==
  /\ ThreadsRun
  /\ refresh_tasks[i].pc = "mark_write"
  /\ last_keyterm_update_word_count' = mark_keyterms_updated(refresh_tasks[i].wc)
  /\ refresh_tasks' = SetTask(i, [refresh_tasks[i] EXCEPT !.pc = "done", !.wc = 0])
  /\ UNCHANGED <<phase, current_transcript, word_count,
                 current_keyterms, initial_keyterms_generated,
                 final_formatted_turns, client_vars, init_task, nturns, fu_turns,
                 llm_requests, probe>>

RefreshStep(stores, replies) ==
  \E i \in 1..Len(refresh_tasks) :
    \/ RefreshCall(i, stores, replies)
    \/ RefreshSetParams(i)
    \/ RefreshAssign(i)
    \/ RefreshMarkWrite(i)

\* ------------------------------------------------------------------------
\* Specifications
\* ------------------------------------------------------------------------
\* one boosted session (microphone mode)
Session(events, stores, replies, max_turns, max_refresh) ==
  \/ on_begin /\ UNCHANGED compare_vars
  \/ OnTurn(events, max_turns, max_refresh) /\ UNCHANGED compare_vars
  \/ on_terminated /\ UNCHANGED compare_vars
  \/ on_error
  \/ disconnect /\ UNCHANGED compare_vars
  \/ InitialCall(stores, replies) /\ UNCHANGED compare_vars
  \/ InitialSetParams /\ UNCHANGED compare_vars
  \/ InitialAssign /\ UNCHANGED compare_vars
  \/ RefreshStep(stores, replies) /\ UNCHANGED compare_vars

\* every turn event, store and reply; one refresh thread
Next == Session(AllEvents, Stores, Replies, MaxTurns, MaxRefresh)

Spec == Init /\ [][Next]_vars

\* threading.Thread(...).start(): a started thread is scheduled, and the
\* generation call it makes returns, so a thread that can take its next step
\* takes it
ThreadsScheduled ==
  /\ WF_vars((InitialCall(Stores, Replies) \/ InitialSetParams \/ InitialAssign)
             /\ UNCHANGED compare_vars)
  /\ \A i \in 1..MaxRefresh :
       WF_vars(/\ i <= Len(refresh_tasks)
               /\ \/ RefreshCall(i, Stores, Replies)
                  \/ RefreshSetParams(i)
                  \/ RefreshAssign(i)
                  \/ RefreshMarkWrite(i)
               /\ UNCHANGED compare_vars)

\* the same session under fair scheduling of its threads
SpecLive == Init /\ [][Next]_vars /\ ThreadsScheduled

\* two refresh threads beside the initial one
NextRace == Session(FewEvents, {StoreEmpty, StoreRecords}, RaceReplies, RaceTurns, RaceRefresh)

SpecRace == Init /\ [][NextRace]_vars

\* a burst of three triggering turns
NextBurst == Session(FewEvents, {StoreRecords}, BurstReplies, BurstTurns, BurstRefresh)

SpecBurst == Init /\ [][NextBurst]_vars

\* a session whose generation replies are a list of names, an empty array or an
\* array without a string
NextEmpty ==
  Session(FewEvents, {StoreRecords}, {ReplyListA, ReplyEmptyArray, ReplyNoString},
          MaxTurns, MaxRefresh)

SpecEmpty == Init /\ [][NextEmpty]_vars

\* ------------------------------------------------------------------------
\* Comparison mode: main() runs the file through an unboosted session, then
\* through a boosted one
\* ------------------------------------------------------------------------
\* an entry of the log of delivered turn events
TurnEvent(s, text, end_of_turn, turn_is_formatted) ==
  [session |-> s, text |-> text, end_of_turn |-> end_of_turn,
   turn_is_formatted |-> turn_is_formatted]

\* the turn events of the unboosted session
NoBoostEvents ==
  {<<OneWord, TRUE, TRUE>>, <<Odd49, TRUE, TRUE>>, <<Fifty, TRUE, FALSE>>}

\* the turn events of the boosted session
CmpEvents ==
  {<<OneWord, TRUE, TRUE>>, <<Odd49, TRUE, TRUE>>, <<BlankText, TRUE, TRUE>>,
   <<Fifty, TRUE, FALSE>>, <<OneWord, FALSE, FALSE>>}

\* conversation_state = ConversationState(); client1 = create_streaming_client()
\* with the no-boost handlers; client1.connect(...)
CompareInit ==
  /\ phase = "connected"
  /\ current_transcript = << >>
  /\ word_count = 0
  /\ last_keyterm_update_word_count = 0
  /\ current_keyterms = << >>
  /\ initial_keyterms_generated = FALSE
  /\ final_formatted_turns = << >>
  /\ session_keyterms = << >>
  /\ set_params_calls = 0
  /\ init_task = InitTask("idle", "none", << >>, FALSE)
  /\ refresh_tasks = << >>
  /\ nturns = 0
  /\ fu_turns = << >>
  /\ llm_requests = 0
  /\ probe = NoProbe
  /\ session = "no_boost"
  /\ delivered = << >>
  /\ session1_turns = << >>
  /\ session2_turns = << >>

\* mutant: the unboosted session is given the boosted begin handler
on_begin_no_boost_boosted ==
  /\ session = "no_boost"
  /\ on_begin
  /\ UNCHANGED compare_vars

\* on_begin_no_boost: prints the session id
on_begin_no_boost ==
  /\ session = "no_boost"
  /\ phase = "connected"
  /\ phase' = "live"
  /\ UNCHANGED <<conv_vars, client_vars, init_task, refresh_tasks, nturns, fu_turns,
                 llm_requests, probe, compare_vars>>

\* mutant: every final turn is stored, formatted or not
on_turn_no_boost_all_finals(text, end_of_turn, turn_is_formatted, max_turns) ==
  /\ session = "no_boost"
  /\ phase = "live"
  /\ nturns < max_turns
  /\ nturns' = nturns + 1
  /\ final_formatted_turns' =
       IF ~IsBlank(text) /\ end_of_turn
       THEN Append(final_formatted_turns, text) ELSE final_formatted_turns
  /\ delivered' = Append(delivered,
                         TurnEvent("no_boost", text, end_of_turn, turn_is_formatted))
  /\ UNCHANGED <<phase, current_transcript, word_count,
                 last_keyterm_update_word_count, current_keyterms,
                 initial_keyterms_generated, client_vars, init_task, refresh_tasks,
                 fu_turns, llm_requests, probe, session, session1_turns,
                 session2_turns>>

\* on_turn_no_boost: a non-blank formatted final turn is stored, any other
\* turn is only printed
on_turn_no_boost(text, end_of_turn, turn_is_formatted, max_turns) ==
  /\ session = "no_boost"
  /\ phase = "live"
  /\ nturns < max_turns
  /\ nturns' = nturns + 1
  /\ final_formatted_turns' =
       IF ~IsBlank(text) /\ end_of_turn /\ turn_is_formatted
       THEN Append(final_formatted_turns, text) ELSE final_formatted_turns
  /\ delivered' = Append(delivered,
                         TurnEvent("no_boost", text, end_of_turn, turn_is_formatted))
  /\ UNCHANGED <<phase, current_transcript, word_count,
                 last_keyterm_update_word_count, current_keyterms,
                 initial_keyterms_generated, client_vars, init_task, refresh_tasks,
                 fu_turns, llm_requests, probe, session, session1_turns,
                 session2_turns>>

\* on_terminated_no_boost: prints the audio duration
on_terminated_no_boost ==
  /\ session = "no_boost"
  /\ phase = "live"
  /\ phase' = "terminated"
  /\ UNCHANGED <<conv_vars, client_vars, init_task, refresh_tasks, nturns, fu_turns,
                 llm_requests, probe, compare_vars>>

\* main(): client1.disconnect(terminate=True);
\* session1_turns = conversation_state.final_formatted_turns.copy();
\* conversation_state = ConversationState(); client2 = create_streaming_client()
\* with the boosted handlers; client2.connect(...)
next_session ==
  /\ session = "no_boost"
  /\ phase \in {"connected", "live", "terminated"}
  /\ session1_turns' = final_formatted_turns
  /\ session' = "boost"
  /\ phase' = "connected"
  /\ current_transcript' = << >>
  /\ word_count' = 0
  /\ last_keyterm_update_word_count' = 0
  /\ current_keyterms' = << >>
  /\ initial_keyterms_generated' = FALSE
  /\ final_formatted_turns' = << >>
  /\ nturns' = 0
  /\ fu_turns' = << >>
  /\ session_keyterms' = << >>
  /\ set_params_calls' = 0
  /\ UNCHANGED <<init_task, refresh_tasks, llm_requests, probe, delivered,
                 session2_turns>>

\* main(): client2.disconnect(terminate=True);
\* session2_turns = conversation_state.final_formatted_turns.copy(); the summary
\* is printed and the process exits
end_comparison ==
  /\ session = "boost"
  /\ disconnect
  /\ session2_turns' = final_formatted_turns
  /\ UNCHANGED <<session, delivered, session1_turns>>

\* the boosted handlers and threads, as client2 runs them
BoostedSession(events, stores, replies, max_turns, max_refresh) ==
  \/ session = "boost" /\ on_begin /\ UNCHANGED compare_vars
  \/ \E ev \in events :
       /\ session = "boost"
       /\ on_turn(ev[1], ev[2], ev[3], max_turns, max_refresh)
       /\ delivered' = Append(delivered, TurnEvent("boost", ev[1], ev[2], ev[3]))
       /\ UNCHANGED <<session, session1_turns, session2_turns>>
  \/ session = "boost" /\ on_terminated /\ UNCHANGED compare_vars
  \/ session = "boost" /\ InitialCall(stores, replies) /\ UNCHANGED compare_vars
  \/ session = "boost" /\ InitialSetParams /\ UNCHANGED compare_vars
  \/ session = "boost" /\ InitialAssign /\ UNCHANGED compare_vars
  \/ session = "boost" /\ RefreshStep(stores, replies) /\ UNCHANGED compare_vars

NextCompare ==
  \/ on_begin_no_boost
  \/ \E ev \in NoBoostEvents : on_turn_no_boost(ev[1], ev[2], ev[3], CmpTurns)
  \/ on_terminated_no_boost
  \/ on_error
  \/ next_session
  \/ BoostedSession(CmpEvents, {StoreRecords}, {ReplyListA}, CmpTurns, CmpRefresh)
  \/ end_comparison

SpecCompare == CompareInit /\ [][NextCompare]_vars

\* ------------------------------------------------------------------------
\* The functions of keyterms.py called directly, outside a session
\* ------------------------------------------------------------------------
\* 150 valid strings
Items150 == [i \in 1..150 |-> Str("name" \o ToString(i))]

\* 99 valid strings with one non-string among them
Items99AndNumber ==
  [i \in 1..100 |-> IF i = 40 THEN Num("40") ELSE Str("name" \o ToString(i))]

Reply150 == Reply("ok", Text("none", Json("array", Items150)))
Reply99AndNumber == Reply("ok", Text("block", Json("array", Items99AndNumber)))
ReplyFencedInvalid == Reply("ok", Text("block", Json("invalid", << >>)))

ProbeReplies ==
  {ReplyRequestError, ReplyNoContent, ReplyInvalid, ReplyFencedInvalid, ReplyListA,
   ReplyBig, ReplyEmptyArray, ReplyNumber, ReplyObject, ReplyString, ReplyNoLine,
   Reply150, Reply99AndNumber}

\* previous_conversations: one to four records, with or without "text"
ProbeHistories ==
  {StoreRecords.convs, StoreNoText.convs,
   <<[has_text |-> FALSE], [has_text |-> TRUE], [has_text |-> TRUE], [has_text |-> TRUE]>>}

\* current_keyterms handed to refresh_keyterms
ProbeCurrents == {<< >>, ListA, get_fallback_keyterms}

ProbeInit ==
  /\ phase = "connected"
  /\ current_transcript = << >>
  /\ word_count = 0
  /\ last_keyterm_update_word_count = 0
  /\ current_keyterms = << >>
  /\ initial_keyterms_generated = FALSE
  /\ final_formatted_turns = << >>
  /\ session_keyterms = << >>
  /\ set_params_calls = 0
  /\ init_task = InitTask("idle", "none", << >>, FALSE)
  /\ refresh_tasks = << >>
  /\ nturns = 0
  /\ fu_turns = << >>
  /\ llm_requests = 0
  /\ session = "microphone"
  /\ delivered = << >>
  /\ session1_turns = << >>
  /\ session2_turns = << >>
  /\ \E convs \in ProbeHistories, reply \in ProbeReplies, current \in ProbeCurrents :
       probe = [NoProbe EXCEPT !.op = "input", !.convs = convs, !.reply = reply,
                               !.current = current]

\* call_llm_gateway(prompt)
ProbeGateway ==
  /\ probe.op = "input"
  /\ LET r == call_llm_gateway(probe.reply) IN
     probe' = [probe EXCEPT !.op = "call_llm_gateway", !.raised = r.raised,
                            !.text = r.text]
  /\ UNCHANGED <<session_vars, compare_vars>>

\* generate_initial_keyterms(previous_conversations)
ProbeInitial ==
  /\ probe.op = "input"
  /\ LET g == generate_initial_keyterms(probe.convs, probe.reply) IN
     probe' = [probe EXCEPT !.op = "generate_initial_keyterms",
                            !.raised = g.raised, !.terms = g.terms]
  /\ UNCHANGED <<session_vars, compare_vars>>

\* refresh_keyterms(current_keyterms, current_transcript, previous_conversations)
ProbeRefresh ==
  /\ probe.op = "input"
  /\ LET r == refresh_keyterms(probe.current, probe.convs, probe.reply) IN
     probe' = [probe EXCEPT !.op = "refresh_keyterms",
                            !.raised = r.raised, !.terms = r.terms]
  /\ UNCHANGED <<session_vars, compare_vars>>

NextProbe == ProbeGateway \/ ProbeInitial \/ ProbeRefresh

SpecProbe == ProbeInit /\ [][NextProbe]_vars

\* ------------------------------------------------------------------------
\* Properties
\* ------------------------------------------------------------------------
AllDone ==
  /\ init_task.pc = "done"
  /\ \A i \in 1..Len(refresh_tasks) : refresh_tasks[i].pc = "done"

\* the texts joined by single spaces
RECURSIVE SpaceJoin(_)
SpaceJoin(texts) ==
  IF Len(texts) = 0 THEN << >>
  ELSE IF Len(texts) = 1 THEN texts[1]
  ELSE texts[1] \o <<" ">> \o SpaceJoin(Tail(texts))

Min(a, b) == IF a < b THEN a ELSE b

\* C1: a step of on_turn on a non-blank final unformatted turn starts a refresh
\* thread exactly when the word count after appending the turn, minus
\* last_keyterm_update_word_count as the handler found it, is at least
\* KEYTERM_REFRESH_THRESHOLD (the cumulative count, not the turn's own).
C1_TriggerIffThreshold ==
  [][\A ev \in AllEvents :
       (/\ on_turn(ev[1], ev[2], ev[3], MaxTurns, MaxRefresh)
        /\ ev[2] /\ ~ev[3] /\ ~IsBlank(ev[1]))
       => ((Len(refresh_tasks') = Len(refresh_tasks) + 1)
            <=> (word_count' - last_keyterm_update_word_count
                   >= KEYTERM_REFRESH_THRESHOLD))]_vars

\* C1 witness: a 49-word turn and then a one-word turn started the refresh at
\* 50 words
C1_Witness ==
  /\ fu_turns = <<Odd49, OneWord>>
  /\ Len(refresh_tasks) = 1
  /\ refresh_tasks[1].at = KEYTERM_REFRESH_THRESHOLD

\* C2 (as claimed): a refresh triggered at word count w is followed by no other
\* trigger below w + KEYTERM_REFRESH_THRESHOLD, whatever the refresh threads do
\* in between.
C2_NoTriggerInWindow ==
  \A i, j \in 1..Len(refresh_tasks) :
    i < j => refresh_tasks[j].at >= refresh_tasks[i].at + KEYTERM_REFRESH_THRESHOLD

\* C3 (as claimed): when the session has ended, the number of refreshes
\* triggered is floor(word_count / KEYTERM_REFRESH_THRESHOLD), or the number of
\* counted turns if that is smaller.
C3_RefreshCount ==
  phase \in {"terminated", "exited"} =>
    Len(refresh_tasks) =
      Min(word_count \div KEYTERM_REFRESH_THRESHOLD,
          Cardinality({k \in 1..Len(fu_turns) : ~IsBlank(fu_turns[k])}))

\* C4: word_count is the number of whitespace-separated tokens of the
\* space-joined texts of the final unformatted turns delivered, in arrival
\* order, and no step decreases it.
C4_WordCount ==
  /\ [](word_count = SplitLen(SpaceJoin(fu_turns)))
  /\ [][word_count' >= word_count]_vars

\* C4 witness: two counted turns, the first with irregular whitespace
C4_Witness ==
  /\ fu_turns = <<Odd49, Fifty>>
  /\ word_count = 99

\* C5: a step of on_turn on a partial turn, a formatted final turn or a blank
\* turn changes neither the transcript nor the two word counts and starts no
\* refresh thread.
C5_OnlyFinalUnformattedCounts ==
  [][\A ev \in AllEvents :
       (/\ on_turn(ev[1], ev[2], ev[3], MaxTurns, MaxRefresh)
        /\ ~(ev[2] /\ ~ev[3] /\ ~IsBlank(ev[1])))
       => UNCHANGED <<current_transcript, word_count,
                      last_keyterm_update_word_count, refresh_tasks>>]_vars

\* C5 witness: the formatted re-emission of a counted 50-word turn was
\* delivered and the count is still 50
C5_Witness ==
  /\ fu_turns = <<Fifty>>
  /\ final_formatted_turns = <<Fifty>>
  /\ word_count = 50
  /\ nturns = 2

\* C6 (as claimed): no step of a refresh thread whose generation failed
\* (refresh_keyterms returned current_keyterms) changes current_keyterms.
C6_FailedRefreshKeepsKeyterms ==
  [][\A i \in 1..Len(refresh_tasks) :
       (refresh_tasks[i].gen = "kept" /\ refresh_tasks'[i] # refresh_tasks[i])
       => current_keyterms' = current_keyterms]_vars

\* C7 (as claimed): while the session's process is up and no background
\* keyterm thread is running, current_keyterms is the list last set on the
\* session.
C7_PublishedListIsSessionList ==
  (phase \in {"live", "terminated"} /\ AllDone) => current_keyterms = session_keyterms

\* C8 (as claimed): when two refresh threads have both generated a list and
\* published it, and the initial thread has published nothing, the list of the
\* one triggered second is the active one and the session's.
C8_LaterRefreshWins ==
  (/\ Len(refresh_tasks) = 2
   /\ AllDone
   /\ ~init_task.published
   /\ \A i \in 1..2 : refresh_tasks[i].published /\ refresh_tasks[i].gen = "parsed")
  => /\ current_keyterms = refresh_tasks[2].new_keyterms
     /\ session_keyterms = refresh_tasks[2].new_keyterms

\* C9 (as claimed): once the termination event has been delivered, no step
\* calls set_params or changes current_keyterms or
\* last_keyterm_update_word_count.
C9_NoPublicationAfterEnd ==
  [][phase = "terminated" =>
       UNCHANGED <<session_keyterms, set_params_calls, current_keyterms,
                   last_keyterm_update_word_count>>]_vars

\* C10: current_keyterms never holds more than MAX_KEYTERMS elements, and each
\* is a string of 1 to 50 characters.
C10_KeytermsBounded ==
  /\ Len(current_keyterms) <= MAX_KEYTERMS
  /\ \A i \in 1..Len(current_keyterms) :
       /\ current_keyterms[i].t = "str"
       /\ Len(current_keyterms[i].v) >= 1
       /\ Len(current_keyterms[i].v) <= MAX_TERM_LEN

\* C10 witness: a refresh published a reply of 123 candidates, cut to
\* MAX_KEYTERMS valid ones
C10_Witness ==
  /\ Len(current_keyterms) = MAX_KEYTERMS
  /\ \E i \in 1..Len(refresh_tasks) :
       /\ refresh_tasks[i].published
       /\ refresh_tasks[i].gen = "parsed"
       /\ refresh_tasks[i].new_keyterms = current_keyterms

\* C11: last_keyterm_update_word_count never exceeds word_count, whichever
\* thread wrote it last: the event thread at a trigger, or a refresh thread
\* with a word count it read earlier.
C11_MarkerNeverAhead == last_keyterm_update_word_count <= word_count

\* C11 witness: a refresh thread has finished and its own write moved the
\* marker past the word count of its trigger
C11_Witness ==
  \E i \in 1..Len(refresh_tasks) :
    /\ refresh_tasks[i].pc = "done"
    /\ refresh_tasks[i].published
    /\ last_keyterm_update_word_count > refresh_tasks[i].at
    /\ last_keyterm_update_word_count <= word_count

\* C12: last_keyterm_update_word_count is the word count of the most recent
\* trigger: no step of a refresh thread changes it.
C12_MarkerIsTriggerSnapshot ==
  Len(refresh_tasks) > 0 =>
    last_keyterm_update_word_count = refresh_tasks[Len(refresh_tasks)].at

\* C13: the first set_params call of a session carries the fallback list, and
\* it is made, with current_keyterms set to that list, before the
\* generate_initial_keyterms_async thread exists; the thread's own list is
\* applied by a later call.
C13_FallbackAppliedFirst ==
  /\ init_task.pc = "idle" => (set_params_calls = 0 /\ session_keyterms = << >>)
  /\ init_task.pc # "idle" => set_params_calls >= 1
  /\ set_params_calls = 1 =>
       (session_keyterms = get_fallback_keyterms /\
        current_keyterms = get_fallback_keyterms)
  /\ (init_task.pc = "assign" \/ init_task.published) => set_params_calls >= 2

\* C13 witness: the initial thread has applied a contextual list of its own
C13_Witness ==
  /\ init_task.published
  /\ init_task.gen = "parsed"
  /\ init_task.llm_keyterms # get_fallback_keyterms
  /\ session_keyterms = init_task.llm_keyterms
  /\ set_params_calls = 2

\* C14: when the store is absent, unparseable or an empty list, the initial
\* thread ends at once: no request to the generation service, no set_params
\* call, no write to current_keyterms; the fallback list of on_begin stays in
\* current_keyterms until a refresh thread publishes.
C14_EmptyHistorySkipsGeneration ==
  /\ [][\A store \in {StoreAbsent, StoreUnparseable, StoreEmpty} :
          InitialCallWith(store, Replies) =>
            /\ init_task'.pc = "done"
            /\ init_task'.gen = "no_history"
            /\ UNCHANGED <<llm_requests, client_vars, current_keyterms>>]_vars
  /\ []((init_task.gen = "no_history" /\
          \A i \in 1..Len(refresh_tasks) : ~refresh_tasks[i].published) =>
         (current_keyterms = get_fallback_keyterms /\ llm_requests <= Len(refresh_tasks)))

\* C14 witness: the initial thread found no history, and a turn has been
\* counted with the fallback list still in place
C14_Witness ==
  /\ init_task.gen = "no_history"
  /\ init_task.pc = "done"
  /\ llm_requests = 0
  /\ word_count > 0
  /\ set_params_calls = 1
  /\ current_keyterms = get_fallback_keyterms
  /\ session_keyterms = get_fallback_keyterms

\* C15: the initial thread changes current_keyterms and the session's list
\* only after a generation that parsed; no step of a thread whose generation
\* failed or gave nothing changes either of them.
C15_FailedInitialKeepsKeyterms ==
  [][(/\ init_task.pc # "idle"
      /\ init_task' # init_task
      /\ init_task.gen # "parsed"
      /\ init_task'.gen # "parsed") =>
       UNCHANGED <<current_keyterms, session_keyterms>>]_vars

\* C16: a failure inside a background thread stays inside it. No step of a
\* background thread touches the transcript, the word count or the turns
\* handled, and a step of a thread whose generation failed, or the step that
\* ends a thread without publication, leaves current_keyterms as it was.
C16_FailuresAbsorbed ==
  [][LET ThreadStep(old, new) == old # new /\ old.pc \notin {"idle", "done", "killed"}
         FailedStep(old, new, kept) ==
           /\ ThreadStep(old, new)
           /\ old.gen = kept \/ (new.pc = "done" /\ ~new.published)
     IN  phase' = phase /\ Len(refresh_tasks') = Len(refresh_tasks) =>
           /\ (ThreadStep(init_task, init_task') \/
                \E i \in 1..Len(refresh_tasks) :
                   ThreadStep(refresh_tasks[i], refresh_tasks'[i])) =>
                UNCHANGED <<current_transcript, word_count, nturns, fu_turns,
                            final_formatted_turns>>
           /\ (FailedStep(init_task, init_task', "fallback") \/
                \E i \in 1..Len(refresh_tasks) :
                   FailedStep(refresh_tasks[i], refresh_tasks'[i], "kept")) =>
                current_keyterms' = current_keyterms]_vars

\* the elements that are strings of 1 to 50 characters, in their order, cut
\* after the first `room` of them: the k-th is the element with k - 1 such
\* strings before it
FirstStrings(items, room) ==
  LET IsString(i) == items[i].t = "str" /\ Len(items[i].v) >= 1 /\ Len(items[i].v) <= 50
      strings == {i \in 1..Len(items) : IsString(i)}
      Before(i) == Cardinality({j \in strings : j < i})
      n == IF Cardinality(strings) < room THEN Cardinality(strings) ELSE room
  IN  [k \in 1..n |-> items[CHOOSE i \in strings : Before(i) = k - 1]]

\* the reply is a JSON array, bare or inside a fenced block
IsArrayReply(reply) ==
  /\ reply.http = "ok"
  /\ reply.text.fence \in {"none", "block"}
  /\ reply.text.json.k = "array"

\* C17: for a reply that parses as an array, generate_initial_keyterms and
\* refresh_keyterms both return the strings of 1 to 50 characters among its
\* elements, in their order, cut after the first MAX_KEYTERMS of them; other
\* elements are dropped.
C17_ExtractorFilters ==
  (/\ probe.op \in {"generate_initial_keyterms", "refresh_keyterms"}
   /\ IsArrayReply(probe.reply)
   /\ ~HistoryTextRaises(IF probe.op = "refresh_keyterms"
                         THEN LastThree(probe.convs) ELSE probe.convs)) =>
    /\ ~probe.raised
    /\ probe.terms = FirstStrings(probe.reply.text.json.items, MAX_KEYTERMS)
    /\ probe.reply = Reply150 => probe.terms = SubSeq(Items150, 1, 100)
    /\ probe.reply = Reply99AndNumber =>
         (Len(probe.terms) = 99 /\
          probe.terms = SubSeq(Items99AndNumber, 1, 39) \o SubSeq(Items99AndNumber, 41, 100))

\* C17 witness: refresh_keyterms returned the 99 strings of a reply of 99
\* strings and a number
C17_Witness ==
  /\ probe.op = "refresh_keyterms"
  /\ probe.reply = Reply99AndNumber
  /\ ~probe.raised
  /\ Len(probe.terms) = 99

\* the gateway answered, or failed with an error it reports, and what it
\* gave is not a JSON array once an optional fence is stripped
IsMalformedReply(reply) ==
  /\ reply.http \in {"ok", "request_error"}
  /\ reply.text.fence \in {"none", "block"}
  /\ reply.http = "ok" => reply.text.json.k # "array"

\* C18: given output that is not a JSON array (nothing, invalid text, or a
\* JSON object, string or number), generate_initial_keyterms returns the
\* fallback list and does not raise.
C18_InitialFallsBack ==
  (/\ probe.op = "generate_initial_keyterms"
   /\ IsMalformedReply(probe.reply)
   /\ ~HistoryTextRaises(probe.convs)) =>
    (~probe.raised /\ probe.terms = get_fallback_keyterms)

\* C19: given output that is not a JSON array, refresh_keyterms returns the
\* current_keyterms it was given, whatever that list is, and does not raise.
C19_RefreshKeepsCurrent ==
  (/\ probe.op = "refresh_keyterms"
   /\ IsMalformedReply(probe.reply)
   /\ ~HistoryTextRaises(LastThree(probe.convs))) =>
    (~probe.raised /\ probe.terms = probe.current)

\* C20: call_llm_gateway never raises: it returns the message content of a
\* good response and the empty text for a network error, an error status or
\* a malformed body.
C20_GatewayNeverRaises ==
  probe.op = "call_llm_gateway" =>
    /\ ~probe.raised
    /\ probe.text = IF probe.reply.http = "ok" THEN probe.reply.text ELSE EmptyResponse

\* C21: in comparison mode the turns of the unboosted session are all delivered
\* before any turn of the boosted session, and while the unboosted session runs
\* no keyterm parameter update has been sent, no generation request has been
\* made and neither the initial-generation thread nor a refresh thread exists
C21_SessionsSequential ==
  /\ \A i, j \in 1..Len(delivered) :
       (i < j /\ delivered[i].session = "boost") => delivered[j].session = "boost"
  /\ session = "no_boost" =>
       /\ \A i \in 1..Len(delivered) : delivered[i].session = "no_boost"
       /\ set_params_calls = 0
       /\ session_keyterms = << >>
       /\ current_keyterms = << >>
       /\ init_task.pc = "idle"
       /\ refresh_tasks = << >>
       /\ llm_requests = 0

\* both sessions have received turns and the boosted one has spawned a refresh
C21_Witness ==
  /\ session = "boost"
  /\ \E i, j \in 1..Len(delivered) :
       delivered[i].session = "no_boost" /\ delivered[j].session = "boost"
  /\ set_params_calls > 0
  /\ Len(refresh_tasks) > 0

\* a thread that has been started and has not ended
InFlight ==
  \/ init_task.pc \in {"call", "set_params", "assign"}
  \/ \E i \in 1..Len(refresh_tasks) : refresh_tasks[i].pc # "done"

\* the turn starts a refresh thread
Triggers(ev) ==
  /\ ~IsBlank(ev[1])
  /\ is_final_unformatted(ev[2], ev[3])
  /\ should_refresh_keyterms(add_transcript(current_transcript, ev[1]).word_count,
                             last_keyterm_update_word_count)

\* C22: while the initial generation or a refresh is in flight in a live
\* session, the turn handler can still run for every turn event (one that
\* starts another refresh included, as long as the bound on threads allows it)
C22_HandlersNeverWait ==
  (phase = "live" /\ nturns < MaxTurns /\ InFlight) =>
    \A ev \in AllEvents :
      (Triggers(ev) => Len(refresh_tasks) < MaxRefresh) =>
        ENABLED on_turn(ev[1], ev[2], ev[3], MaxTurns, MaxRefresh)

\* a later turn has been counted while the refresh triggered before it and the
\* initial generation are both still at their generation call
C22_Witness ==
  /\ init_task.pc = "call"
  /\ \E i \in 1..Len(refresh_tasks) :
       refresh_tasks[i].pc = "call" /\ word_count > refresh_tasks[i].at

\* C23: under fair scheduling every refresh thread that has been started
\* eventually returns, having published its list or ended in its except clause
C23_RefreshCompletes ==
  \A i \in 1..MaxRefresh :
    (Len(refresh_tasks) >= i) ~>
      (Len(refresh_tasks) >= i /\ refresh_tasks[i].pc = "done")

\* the texts, in arrival order, of the non-blank formatted final turns
\* delivered to session s
StoredTurns(s) ==
  LET Keep(ev) == /\ ev.session = s
                  /\ ~IsBlank(ev.text)
                  /\ ev.end_of_turn
                  /\ ev.turn_is_formatted
      kept == SelectSeq(delivered, Keep)
  IN [i \in 1..Len(kept) |-> kept[i].text]

\* C24: final_formatted_turns is the sequence of the non-blank formatted final
\* turns delivered to the running session, in arrival order; the list reported
\* for the unboosted session holds that session's turns only, and so does the
\* list reported for the boosted session
C24_FinalizedTurnsExact ==
  /\ final_formatted_turns = StoredTurns(session)
  /\ session = "boost" => session1_turns = StoredTurns("no_boost")
  /\ phase = "exited" => session2_turns = StoredTurns("boost")

\* the unboosted session stored one of its two turns, the boosted session
\* stored two turns, and both lists have been reported
C24_Witness ==
  /\ phase = "exited"
  /\ Len(session1_turns) = 1
  /\ \E i \in 1..Len(delivered) :
       /\ delivered[i].session = "no_boost"
       /\ delivered[i].end_of_turn
       /\ ~delivered[i].turn_is_formatted
  /\ Len(session2_turns) = 2
  /\ session2_turns[1] # session2_turns[2]
  /\ session2_turns[1] # session1_turns[1]

\* C25: once a refresh thread has assigned its list to current_keyterms, no
\* step of the initial-generation thread changes current_keyterms
C25_InitialNeverOverwritesRefresh ==
  [][(/\ \E i \in 1..Len(refresh_tasks) : refresh_tasks[i].published
      /\ init_task.pc \in {"call", "set_params", "assign"}
      /\ init_task' # init_task) =>
       current_keyterms' = current_keyterms]_vars

\* C26: once the begin handler has run, neither current_keyterms nor the list
\* set on the session is empty
C26_KeytermsNeverEmpty ==
  initial_keyterms_generated => (current_keyterms # << >> /\ session_keyterms # << >>)

====
